---- MODULE Spec2Model ----
(***************************************************************************)
(* Event handlers of the controller (services/controllerhost/              *)
(* event_handlers.go): the ExtentDownEvent seal state machine, the         *)
(* inProgress / failed tracking sets, the rate limiter, the out-of-sync    *)
(* store handler and the notification fan-out.                             *)
(***************************************************************************)
EXTENDS Integers, Sequences, FiniteSets, TLC

\* ------------------------------------------------------------ bounds
\* Capacity of the seal token bucket.
MaxTokens == 1
\* Capacity of the event pipeline's queue.
MaxQueue == 3
\* Longest list a metadata listing returns.
MaxList == 2
\* Latest instant of the clock, in units of 500 ms.
MaxTime == 2
\* Most store clients of one store that are held at once.
MaxClients == 2

Extents == {"E1", "E2"}
Stores == {"S1", "S2"}
\* Slots for the ExtentDownEvent instances that are in flight at once.
Events == {1, 2}
InHosts == {"H1", "H2", "H3"}
OutHosts == {"O1", "O2"}
ConsGroups == {"CG1", "CG2"}
Times == 0 .. MaxTime

\* ------------------------------------------------------------ program constants
checkPreconditionState == 0
sealExtentState == 1
updateMetadataState == 2
doneState == 3

\* Capacity of the failed set (scaled down; defined outside event_handlers.go).
maxFailedExtentSealSetSize == 1

\* Deadlines of the store SealExtent RPC, in seconds.
sealExtentInitialCallTimeout == 2
sealExtentRetryCallTimeout == 20

\* int64(500 * time.Millisecond), in units of 500 ms
resultCacheRefreshMaxWaitTime == 1

\* Store replicas of an extent as recorded in metadata (Extent.StoreUUIDs).
StoreUUIDs(e) == Stores

VARIABLES
    mdStatus,    \* metadata: extent -> "OPEN" | "SEALED"
    inProgress,  \* context.extentSeals.inProgress
    failed,      \* context.extentSeals.failed
    tokens,      \* context.extentSeals.tokenBucket
    ev,          \* ExtentDownEvent instances and the position of their handler
    lastDone,    \* extent -> error of the most recent ExtentDownEvent.Done call
    track,       \* whether hist records the Handle/Done cycles
    hist,        \* extent -> completed cycles and changes of its failed membership
    qlen,        \* notification events waiting in context.eventPipeline
    ece,         \* the ExtentCreatedEvent being handled, with what it offered
    resultCache, \* context.resultCache: consumer group -> entry
    trace,       \* whether call and oos record what the handlers do
    call,        \* what the current invocation of ExtentDownEvent.Handle did
    oos,         \* what the last StoreExtentStatusOutOfSyncEvent.Handle did
    rz,          \* the RemoteZoneExtentCreatedEvent and what its handler did
    clients,     \* clientFactory: store -> store clients acquired and not released
    trig,        \* one call of triggerCacheRefreshForCG: its inputs and position
    hostData,    \* consumer group -> dstType, nExtents, hostIDs of its cache entry
    nq,          \* the host notification events queued in the event pipeline
    nh,          \* the host notification handled last, and what Handle returned
    hf,          \* the host failure handled last, and what its handler did
    cgu          \* the ConsGroupUpdatedEvent handled last, with what it offered

sealVars == <<mdStatus, inProgress, failed, tokens, ev, lastDone, track, hist>>
notifyVars == <<qlen, ece, resultCache>>
traceVars == <<trace, call, oos>>
remoteVars == <<rz, clients>>
cacheVars == <<trig, hostData>>
hostVars == <<nq, nh, hf, cgu>>
vars == <<sealVars, notifyVars, traceVars, remoteVars, cacheVars, hostVars>>

\* What the seal handlers never touch.
others == <<track, notifyVars, trace, remoteVars, cacheVars, hostVars>>

\* ------------------------------------------------------------ events
\* A slot that holds no event.
NoEvent ==
    [pc |-> "none", extentID |-> "E1", state |-> checkPreconditionState,
     storeIDs |-> {}, isRetry |-> FALSE, err |-> "nil",
     pending |-> {}, nSuccess |-> 0, md |-> "none", sealedOK |-> FALSE,
     put |-> FALSE]

\* NewExtentDownEvent: state is the zero value, checkPreconditionState.
NewExtentDownEvent(extentID) ==
    [NoEvent EXCEPT !.pc = "queued", !.extentID = extentID]

\* var isRetry = !(event.state == checkPreconditionState)
IsRetryAtEntry(state) == ~(state = checkPreconditionState)

\* Entry of Handle: isRetry is fixed, the per-invocation records start empty.
Entered(r) ==
    [r EXCEPT !.pc = "handle", !.isRetry = IsRetryAtEntry(r.state),
              !.err = "nil", !.md = "none"]

\* The event as the handler sees it at the top of its loop.
Cur(i) == IF ev[i].pc = "queued" THEN Entered(ev[i]) ELSE ev[i]

\* Mutant: a re-submitted event can be handled from checkPreconditionState
\* again.
AtState_FromStart(i, s) ==
    \/ ev[i].pc \in {"queued", "handle"} /\ ev[i].state = s
    \/ ev[i].pc = "queued" /\ ev[i].state < doneState /\ s = checkPreconditionState

\* switch event.state
AtState(i, s) == ev[i].pc \in {"queued", "handle"} /\ ev[i].state = s

\* Mutant: a handler that fails starts over from checkPreconditionState.
Return_ResetsState(r, err) ==
    [r EXCEPT !.pc = "returned", !.err = err,
              !.state = IF err = "nil" THEN @ ELSE checkPreconditionState]

Return(r, err) == [r EXCEPT !.pc = "returned", !.err = err]

\* An ExtentDownEvent handler is active from admission until Done has finished.
Active(i) == ev[i].pc # "none"

ActiveFor(e) == {i \in Events : Active(i) /\ ev[i].extentID = e}

\* ------------------------------------------------------------ notifications
Range(f) == {f[k] : k \in DOMAIN f}

\* Lists of at most MaxList elements of S.
Lists(S) == UNION {[1 .. n -> S] : n \in 0 .. MaxList}

\* The orders in which a Go map with key set S can be iterated.
Orders(S) == {f \in [1 .. Cardinality(S) -> S] : Range(f) = S}

\* A metadata listing: an error, or the list.
Listings(S) == {[err |-> TRUE, list |-> <<>>]} \cup
               {[err |-> FALSE, list |-> l] : l \in Lists(S)}

\* An ExtentCreatedEvent handler that is not running and has offered nothing.
NoCreated ==
    [pc |-> "idle", inHostID |-> "H1", listed |-> {}, offers |-> <<>>,
     cgs |-> <<>>, cg |-> "CG1", outOffers |-> <<>>,
     reason |-> "none", status |-> "none", outListed |-> {},
     triggered |-> FALSE]

\* The reasons a notification can carry.
notifyExtentCreated == "ExtentCreated"

notifyCGExtUpdated == "CGExtUpdated"

\* A cache miss.
NoEntry == [hit |-> FALSE, refresh |-> FALSE, expiry |-> 0]

InitNotify ==
    /\ qlen = 0
    /\ ece = NoCreated
    /\ resultCache = [g \in ConsGroups |-> NoEntry]

\* eventPipeline.Add: a non-blocking offer that fails when the queue is full.
AddAccepted(q) == q < MaxQueue

\* Offers the notifications for the hosts of `order`, in that order, to a
\* queue holding q events; the log records each offer and its outcome.
RECURSIVE Offer(_, _, _, _)
Offer(q, order, type, log) ==
    IF order = <<>> THEN [q |-> q, log |-> log]
    ELSE LET ok == AddAccepted(q)
         IN  Offer(IF ok THEN q + 1 ELSE q, Tail(order), type,
                   Append(log, [host |-> Head(order), type |-> type, ok |-> ok]))

\* The input hosts of the OPEN extents that ListExtentsByDstIDStatus
\* returned; none when the call failed.
Listed(stats) == IF stats.err THEN {} ELSE Range(stats.list)

\* inHostIDs[event.inHostID] = true, then every input host of the listing.
InHostIDs(inHostID, stats) == {inHostID} \cup Listed(stats)

\* Mutant: the originating host stays in the map of hosts to notify.
ClientHosts_KeepOrigin(hosts, inHostID) == hosts

\* delete(inHostIDs, event.inHostID)
ClientHosts(hosts, inHostID) == hosts \ {inHostID}

\* ExtentCreatedEvent.Handle up to the call of reconfigureAllConsumers: the
\* ALL notification to the originating input host, whose refusal ends the
\* handler, then a CLIENT notification to every other host of the map.
ExtentCreatedNotify(inHostID, stats) ==
    /\ ece.pc = "idle"
    /\ LET hosts == InHostIDs(inHostID, stats)
           started == [NoCreated EXCEPT !.inHostID = inHostID,
                                        !.listed = Listed(stats)]
       IN  IF ~AddAccepted(qlen)
           THEN /\ qlen' = qlen
                /\ ece' = [started EXCEPT !.offers =
                        <<[host |-> inHostID, type |-> "ALL", ok |-> FALSE]>>]
           ELSE \E order \in Orders(ClientHosts(hosts, inHostID)) :
                LET r == Offer(qlen + 1, order, "CLIENT",
                               <<[host |-> inHostID, type |-> "ALL", ok |-> TRUE]>>)
                IN  /\ qlen' = r.q
                    /\ ece' = [started EXCEPT !.pc = "reconf", !.offers = r.log,
                                               !.reason = notifyExtentCreated]
    /\ UNCHANGED <<resultCache, sealVars, traceVars, remoteVars, cacheVars, hostVars>>

\* reconfigureAllConsumers: ListConsumerGroupsByDstID; a failed listing
\* leaves no consumer group to visit.
ReconfigureList(listing) ==
    /\ ece.pc = "reconf"
    /\ ece' = [NoCreated EXCEPT
                    !.pc = IF listing.list = <<>> THEN "idle" ELSE "cgloop",
                    !.cgs = listing.list,
                    !.reason = ece.reason]
    /\ UNCHANGED <<qlen, resultCache, sealVars, traceVars, remoteVars, cacheVars, hostVars>>

\* context.resultCache.readOutputHosts(cgID, now)
ReadOutputHosts(cache, cg, now) ==
    [cacheHit |-> cache[cg].hit, refreshCache |-> cache[cg].refresh,
     expiry |-> cache[cg].expiry]

\* triggerCacheRefreshForCG leaving alone an entry that expires exactly at the
\* deadline.
TriggerCacheRefreshForCG_SkipsAtDeadline(cache, cg, now) ==
    LET result == ReadOutputHosts(cache, cg, now)
        deadline == now + resultCacheRefreshMaxWaitTime
    IN  IF ~result.cacheHit \/ result.refreshCache THEN cache
        ELSE IF result.expiry <= deadline THEN cache
        ELSE [cache EXCEPT ![cg].expiry = now]

\* triggerCacheRefreshForCG
TriggerCacheRefreshForCG(cache, cg, now) ==
    LET result == ReadOutputHosts(cache, cg, now)
        deadline == now + resultCacheRefreshMaxWaitTime
    IN  IF ~result.cacheHit \/ result.refreshCache THEN cache
        ELSE IF result.expiry < deadline THEN cache
        ELSE [cache EXCEPT ![cg].expiry = now]

\* Mutant: consumer groups are notified whatever their status.
ConsGroupNotified_Any(status) == TRUE

\* if cgd.GetStatus() != shared.ConsumerGroupStatus_ENABLED { continue }
ConsGroupNotified(status) == status = "ENABLED"

\* The keys of the map outhosts: the output hosts of the listed extents.
OutputHostsOf(extents) == Range(extents.list)

\* The notifications of a log, each carrying the reason given to the caller.
WithReason(log, reason) ==
    [k \in DOMAIN log |->
        [host |-> log[k].host, type |-> log[k].type, ok |-> log[k].ok,
         reason |-> reason]]

\* One iteration of the loop of reconfigureAllConsumers: a consumer group
\* that is not ENABLED, or whose extents cannot be listed, is skipped; else a
\* CLIENT notification goes to each distinct output host and the result
\* cache of the group is triggered.
ReconfigureConsumerGroup(extents, now) ==
    /\ ece.pc = "cgloop"
    /\ LET cgd == Head(ece.cgs)
           rest == Tail(ece.cgs)
           next == [ece EXCEPT !.cgs = rest, !.cg = cgd.cg, !.outOffers = <<>>,
                               !.status = cgd.status, !.outListed = {},
                               !.triggered = FALSE,
                               !.pc = IF rest = <<>> THEN "idle" ELSE "cgloop"]
       IN  IF ~ConsGroupNotified(cgd.status) \/ extents.err
           THEN /\ ece' = next
                /\ UNCHANGED <<qlen, resultCache>>
           ELSE \E order \in Orders(OutputHostsOf(extents)) :
                LET r == Offer(qlen, order, "CLIENT", <<>>)
                IN  /\ qlen' = r.q
                    /\ ece' = [next EXCEPT
                            !.outOffers = WithReason(r.log, ece.reason),
                            !.outListed = Range(extents.list),
                            !.triggered = TRUE]
                    /\ resultCache' = TriggerCacheRefreshForCG(resultCache, cgd.cg, now)
    /\ UNCHANGED <<sealVars, traceVars, remoteVars, cacheVars, hostVars>>

\* The consumer groups a listing can return: each group at most once, with
\* its status.
ConsGroupListings ==
    {[err |-> TRUE, list |-> <<>>]} \cup
    {[err |-> FALSE,
      list |-> [k \in DOMAIN order |-> [cg |-> order[k], status |-> st[order[k]]]]] :
        order \in UNION {Orders(S) : S \in SUBSET ConsGroups},
        st \in [ConsGroups -> {"ENABLED", "DISABLED"}]}

\* A worker takes a notification event off the queue and handles it.
NotificationHandle ==
    /\ qlen > 0
    /\ qlen' = qlen - 1
    /\ UNCHANGED <<ece, resultCache, sealVars, traceVars, remoteVars, cacheVars, hostVars>>

\* The result cache's own writer stores or refreshes an entry.
CacheWrite(cg, entry) ==
    /\ resultCache[cg] # entry
    /\ resultCache' = [resultCache EXCEPT ![cg] = entry]
    /\ UNCHANGED <<qlen, ece, sealVars, traceVars, remoteVars, cacheVars, hostVars>>

CacheEntries == {NoEntry} \cup [hit : {TRUE}, refresh : BOOLEAN, expiry : Times]

NextNotify ==
    \/ \E h \in InHosts, stats \in Listings(InHosts) : ExtentCreatedNotify(h, stats)
    \/ \E listing \in ConsGroupListings : ReconfigureList(listing)
    \/ \E extents \in Listings(OutHosts), now \in Times :
            ReconfigureConsumerGroup(extents, now)
    \/ NotificationHandle
    \/ \E g \in ConsGroups, entry \in CacheEntries : CacheWrite(g, entry)

\* ------------------------------------------------------------ result-cache refresh trigger
\* No call of triggerCacheRefreshForCG is under way.
NoTrig ==
    [pc |-> "idle", cg |-> "CG1", now |-> 0,
     before |-> [g \in ConsGroups |-> NoEntry], data |-> "hostsA"]

\* The values of dstType, nExtents and hostIDs a cache entry can hold.
HostData == {"hostsA", "hostsB"}

InitCache ==
    /\ trig = NoTrig
    /\ hostData = [g \in ConsGroups |-> "hostsA"]

\* One call triggerCacheRefreshForCG(context, cgID) at time now, on the cache
\* as it stood when the call began.
TriggerCacheRefresh ==
    /\ trig.pc = "ready"
    /\ resultCache' = TriggerCacheRefreshForCG(resultCache, trig.cg, trig.now)
    /\ trig' = [trig EXCEPT !.pc = "done"]
    /\ UNCHANGED <<hostData, qlen, ece, sealVars, traceVars, remoteVars, hostVars>>

NextCache == TriggerCacheRefresh

\* triggerCacheRefreshForCG up to its write: readOutputHosts, and the two
\* tests that end the call without a write.  When a write is due the entry
\* and the host data that were read are kept for it.
TriggerRead(cg, now) ==
    /\ trig.pc = "idle"
    /\ trig' = IF TriggerCacheRefreshForCG(resultCache, cg, now) = resultCache
               THEN trig
               ELSE [pc |-> "read", cg |-> cg, now |-> now,
                     before |-> resultCache, data |-> hostData[cg]]
    /\ UNCHANGED <<hostData, notifyVars, sealVars, traceVars, remoteVars, hostVars>>

\* context.resultCache.write(cgID, resultCacheParams{...}): the dstType,
\* nExtents and hostIDs of the entry that was read, with expiry = now.
TriggerWrite ==
    /\ trig.pc = "read"
    /\ resultCache' = [resultCache EXCEPT ![trig.cg] =
                            [trig.before[trig.cg] EXCEPT !.expiry = trig.now]]
    /\ hostData' = [hostData EXCEPT ![trig.cg] = trig.data]
    /\ trig' = NoTrig
    /\ UNCHANGED <<qlen, ece, sealVars, traceVars, remoteVars, hostVars>>

\* The cache's own writer refreshes the entry of a consumer group with the
\* hosts it computed.
CacheRefreshed(cg, entry, data) ==
    /\ entry.hit
    /\ resultCache' = [resultCache EXCEPT ![cg] = entry]
    /\ hostData' = [hostData EXCEPT ![cg] = data]
    /\ UNCHANGED <<trig, qlen, ece, sealVars, traceVars, remoteVars, hostVars>>

NextRefresh ==
    \/ \E g \in ConsGroups, now \in Times : TriggerRead(g, now)
    \/ TriggerWrite
    \/ \E g \in ConsGroups, entry \in CacheEntries, data \in HostData :
            CacheRefreshed(g, entry, data)

\* ------------------------------------------------------------ host notifications
\* The notification events the handlers enqueue: one per target host.
Notifications ==
    [kind : {"input"}, host : InHosts] \cup [kind : {"output"}, host : OutHosts]

\* Where a notification handler can fail: the host does not resolve, the
\* admin client cannot be created, the RPC still fails after its retries.
NotificationPaths == {"resolveErr", "clientErr", "rpcErr", "sent"}

NoHandled == [n |-> [kind |-> "none", host |-> "none"], path |-> "none", ret |-> "none"]

\* No InputHostFailedEvent or StoreHostFailedEvent handled yet.
NoFailed ==
    [kind |-> "none", hostUUID |-> "none", err |-> FALSE, stats |-> <<>>,
     raised |-> <<>>, ret |-> "none"]

\* No ConsGroupUpdatedEvent handled yet.
NoUpdated ==
    [outputHostID |-> "none", consGroupID |-> "none", listed |-> {},
     offers |-> <<>>, ret |-> "none"]

InitHost ==
    /\ nq = <<>>
    /\ nh = NoHandled
    /\ hf = NoFailed
    /\ cgu = NoUpdated

\* InputHostNotificationEvent.Handle under a mistaken error policy: an
\* unresolvable host is reported as retryable.
InputHostNotificationResult_RetryUnresolved(path) ==
    IF path = "resolveErr" THEN "errRetryable" ELSE "nil"

\* What InputHostNotificationEvent.Handle returns on each of its paths.
InputHostNotificationResult(path) ==
    IF path = "resolveErr" THEN "nil"
    ELSE IF path = "clientErr" THEN "nil"
    ELSE "nil"

\* What OutputHostNotificationEvent.Handle returns on each of its paths.
OutputHostNotificationResult(path) ==
    IF path = "resolveErr" THEN "nil"
    ELSE IF path = "clientErr" THEN "nil"
    ELSE "nil"

\* After a handler returned: errRetryable puts the event back, anything else
\* lets it go.
AfterHandle(ret) ==
    IF ret = "errRetryable" THEN Append(Tail(nq), Head(nq)) ELSE Tail(nq)

\* eventPipeline.Add of a host notification.
NotificationAdd(n) ==
    /\ AddAccepted(Len(nq))
    /\ nq' = Append(nq, n)
    /\ UNCHANGED <<nh, hf, cgu, sealVars, notifyVars, traceVars, remoteVars, cacheVars>>

\* InputHostNotificationEvent.Handle
InputHostNotificationHandle(path) ==
    /\ nq # <<>>
    /\ Head(nq).kind = "input"
    /\ LET ret == InputHostNotificationResult(path)
       IN  /\ nh' = [n |-> Head(nq), path |-> path, ret |-> ret]
           /\ nq' = AfterHandle(ret)
    /\ UNCHANGED <<hf, cgu, sealVars, notifyVars, traceVars, remoteVars, cacheVars>>

\* OutputHostNotificationEvent.Handle
OutputHostNotificationHandle(path) ==
    /\ nq # <<>>
    /\ Head(nq).kind = "output"
    /\ LET ret == OutputHostNotificationResult(path)
       IN  /\ nh' = [n |-> Head(nq), path |-> path, ret |-> ret]
           /\ nq' = AfterHandle(ret)
    /\ UNCHANGED <<hf, cgu, sealVars, notifyVars, traceVars, remoteVars, cacheVars>>

\* Offers the output host notifications for the hosts of `order`, in that
\* order, to the queue q; a refused offer is logged and the next one is made.
RECURSIVE OfferOutput(_, _, _, _)
OfferOutput(q, order, type, log) ==
    IF order = <<>> THEN [q |-> q, log |-> log]
    ELSE LET ok == AddAccepted(Len(q))
             n == [kind |-> "output", host |-> Head(order)]
         IN  OfferOutput(IF ok THEN Append(q, n) ELSE q, Tail(order), type,
                         Append(log, [host |-> Head(order), type |-> type,
                                      ok |-> ok, reason |-> notifyCGExtUpdated]))

\* outHostIDs[event.outputHostID] = true, then every output host of the
\* listing of OPEN consumer group extents.
OutHostIDs(outputHostID, extents) == {outputHostID} \cup Listed(extents)

\* Mutant: the newly assigned host stays in the map of hosts to notify.
ClientOutputHosts_KeepOrigin(hosts, outputHostID) == hosts

\* delete(outHostIDs, event.outputHostID)
ClientOutputHosts(hosts, outputHostID) == hosts \ {outputHostID}

\* ConsGroupUpdatedEvent.Handle: the ALL notification to the newly assigned
\* output host, then a CLIENT notification to every other host of the map;
\* the handler returns nil whatever became of the offers.
ConsGroupUpdatedHandle(consGroupID, outputHostID, extents) ==
    /\ LET hosts == OutHostIDs(outputHostID, extents)
           all == OfferOutput(nq, <<outputHostID>>, "ALL", <<>>)
       IN  \E order \in Orders(ClientOutputHosts(hosts, outputHostID)) :
                LET r == OfferOutput(all.q, order, "CLIENT", all.log)
                IN  /\ nq' = r.q
                    /\ cgu' = [outputHostID |-> outputHostID,
                               consGroupID |-> consGroupID,
                               listed |-> Listed(extents),
                               offers |-> r.log, ret |-> "nil"]
    /\ UNCHANGED <<nh, hf, sealVars, notifyVars, traceVars, remoteVars, cacheVars>>

NextUpdated ==
    \/ \E g \in ConsGroups, h \in OutHosts, extents \in Listings(OutHosts) :
            ConsGroupUpdatedHandle(g, h, extents)
    \/ \E path \in NotificationPaths : OutputHostNotificationHandle(path)

NextHost ==
    \/ \E n \in Notifications : NotificationAdd(n)
    \/ \E path \in NotificationPaths : InputHostNotificationHandle(path)
    \/ \E path \in NotificationPaths : OutputHostNotificationHandle(path)

\* ------------------------------------------------------------ host failures
\* context.localZone and the origin zones an extent can have.
LocalZone == "zoneA"
Zones == {"zoneA", "zoneB"}

\* common.IsRemoteZoneExtent: the origin zone differs from the local zone.
IsRemoteZoneExtent(originZone, localZone) == originZone # localZone

\* The OPEN extents a metadata listing by host returns: an error, or each
\* extent of the host once, with its origin zone.
ExtentListings ==
    {[err |-> TRUE, list |-> <<>>]} \cup
    {[err |-> FALSE,
      list |-> [k \in DOMAIN order |->
                    [extentID |-> order[k], originZone |-> z[order[k]]]]] :
        order \in UNION {Orders(S) : S \in SUBSET Extents},
        z \in [Extents -> Zones]}

\* createExtentDownEvents without the zone filter.
RECURSIVE CreateExtentDownEvents_AllZones(_)
CreateExtentDownEvents_AllZones(stats) ==
    IF stats = <<>> THEN <<>>
    ELSE <<[sealSeq |-> 0, extentID |-> Head(stats).extentID]>>
            \o CreateExtentDownEvents_AllZones(Tail(stats))

\* createExtentDownEvents: the calls addExtentDownEvent(context, 0, dstID,
\* extentID) it makes, in the order of the listing.
RECURSIVE CreateExtentDownEvents(_)
CreateExtentDownEvents(stats) ==
    IF stats = <<>> THEN <<>>
    ELSE (IF ~IsRemoteZoneExtent(Head(stats).originZone, LocalZone)
          THEN <<[sealSeq |-> 0, extentID |-> Head(stats).extentID]>>
          ELSE <<>>)
            \o CreateExtentDownEvents(Tail(stats))

\* addExtentDownEvent applied to each raised event in turn: an extent that
\* is already in progress is not admitted again.
RECURSIVE Admit(_, _)
Admit(st, raised) ==
    IF raised = <<>> THEN st
    ELSE LET e == Head(raised).extentID
             free == {i \in Events : st.ev[i].pc = "none"}
         IN  IF e \in st.inProgress \/ free = {}
             THEN Admit(st, Tail(raised))
             ELSE LET i == CHOOSE j \in free : \A k \in free : j <= k
                  IN  Admit([inProgress |-> st.inProgress \cup {e},
                             ev |-> [st.ev EXCEPT ![i] = NewExtentDownEvent(e)]],
                            Tail(raised))

\* The body shared by InputHostFailedEvent.Handle and
\* StoreHostFailedEvent.Handle: list the OPEN extents of the host; on an
\* error return nil, else createExtentDownEvents and return nil.
HostFailedHandle(kind, hostUUID, listing) ==
    LET raised == IF listing.err THEN <<>> ELSE CreateExtentDownEvents(listing.list)
        st == Admit([inProgress |-> inProgress, ev |-> ev], raised)
    IN  /\ inProgress' = st.inProgress
        /\ ev' = st.ev
        /\ hf' = [kind |-> kind, hostUUID |-> hostUUID, err |-> listing.err,
                  stats |-> listing.list, raised |-> raised, ret |-> "nil"]
        /\ UNCHANGED <<nq, nh, cgu, mdStatus, failed, tokens, lastDone, track, hist,
                       notifyVars, traceVars, remoteVars, cacheVars>>

\* InputHostFailedEvent.Handle
InputHostFailedHandle(hostUUID, listing) ==
    HostFailedHandle("input", hostUUID, listing)

\* StoreHostFailedEvent.Handle
StoreHostFailedHandle(hostUUID, listing) ==
    HostFailedHandle("store", hostUUID, listing)

NextFailed ==
    \/ \E h \in InHosts, listing \in ExtentListings : InputHostFailedHandle(h, listing)
    \/ \E s \in Stores, listing \in ExtentListings : StoreHostFailedHandle(s, listing)

\* ------------------------------------------------------------ seal history
\* History of the cycles of one extent: cycles completed, changes of its
\* membership in the failed set, cycles that ended with an error, and the
\* metadata status the first cycle left.
NoHist == [runs |-> 0, flips |-> 0, errs |-> 0, md1 |-> "OPEN"]

Recording(e) == track /\ hist[e].runs < 2

\* A change of e's membership in the failed set from f1 to f2.
HistFlip(e, f1, f2) ==
    IF Recording(e) /\ ((e \in f1) # (e \in f2))
    THEN [hist EXCEPT ![e].flips = @ + 1]
    ELSE hist

\* Done has finished a cycle for e with err, leaving metadata status md.
HistRun(e, err, md) ==
    IF Recording(e)
    THEN [hist EXCEPT ![e].runs = @ + 1,
                      ![e].errs = IF err # "nil" THEN @ + 1 ELSE @,
                      ![e].md1 = IF hist[e].runs = 0 THEN md ELSE @]
    ELSE hist

\* ------------------------------------------------------------ RemoteZoneExtentCreatedEvent
\* event.storeIDs: the primary store first, then the secondaries.
RemoteStoreIDs == <<"P", "S1", "S2">>
RemoteStores == Range(RemoteStoreIDs)

\* No event, and no sealExtentOnStore call in flight; `progress` is the number of leading stores whose call succeeded
\* in an earlier invocation, `prev` the failure of the previous invocation.
NoRemote ==
    [pc |-> "idle", first |-> TRUE, progress |-> 0,
     prev |-> [at |-> 0, kind |-> "none"], calls |-> <<>>, ret |-> "none",
     sealing |-> "none"]

\* Where an invocation fails: at store number `at`, in ResolveUUID, in
\* GetThriftStoreClient or in the replicate call; or nowhere.
RemoteOutcomes ==
    {[at |-> 0, kind |-> "none"]} \cup
    [at : DOMAIN RemoteStoreIDs, kind : {"resolve", "get", "rpc"}]

\* clientFactory.GetThriftStoreClient, when it succeeds
GetThriftStoreClient(c, s) == [c EXCEPT ![s] = @ + 1]

\* clientFactory.ReleaseThriftStoreClient
ReleaseThriftStoreClient(c, s) == [c EXCEPT ![s] = @ - 1]

\* Mutant: the handler resumes after the stores that already succeeded.
FirstStore_Resume(progress) == progress + 1

\* primaryStoreID := event.storeIDs[0]: every invocation starts at the primary.
FirstStore(progress) == 1

\* RemoteReplicateExtent for the primary, ReplicateExtent for a secondary.
ReplicateOp(k) == IF k = 1 THEN "RemoteReplicateExtent" ELSE "ReplicateExtent"

\* Mutant: a secondary is told to replicate from itself.
SourceStore_Self(k) == IF k = 1 THEN "none" ELSE RemoteStoreIDs[k]

\* req.StoreUUID = primaryStoreID for a secondary; RemoteReplicateExtent
\* names no source store.
SourceStore(k) == IF k = 1 THEN "none" ELSE RemoteStoreIDs[1]

\* return errRetryable from ResolveUUID, the error itself otherwise.
RemoteResult(o) ==
    IF o.kind = "none" THEN "nil"
    ELSE IF o.kind = "resolve" THEN "errRetryable" ELSE "err"

\* The stores of numbers from..to, a client of each of which is acquired.
RECURSIVE AcquireAll(_, _, _)
AcquireAll(c, from, to) ==
    IF from > to THEN c
    ELSE AcquireAll(GetThriftStoreClient(c, RemoteStoreIDs[from]), from + 1, to)

\* A new RemoteZoneExtentCreatedEvent enters the pipeline.
RemoteZoneExtentCreated ==
    /\ rz.pc = "idle"
    /\ rz.sealing = "none"
    /\ rz' = [NoRemote EXCEPT !.pc = "queued"]
    /\ UNCHANGED <<clients, sealVars, notifyVars, traceVars, cacheVars, hostVars>>

\* RemoteZoneExtentCreatedEvent.Handle: from the first store on, resolve, get
\* a client and call the store, until a step fails.
RemoteZoneExtentCreatedHandle(o) ==
    /\ rz.pc = "queued"
    /\ \A s \in RemoteStores : clients[s] < MaxClients
    /\ LET n == Len(RemoteStoreIDs)
           from == FirstStore(rz.progress)
           \* the last store a client was acquired for and a call made to
           last == IF o.kind = "none" THEN n
                   ELSE IF o.kind = "rpc" THEN o.at ELSE o.at - 1
           made == IF last < from THEN <<>>
                   ELSE [j \in 1 .. (last - from + 1) |->
                            [op |-> ReplicateOp(from + j - 1),
                             store |-> RemoteStoreIDs[from + j - 1],
                             src |-> SourceStore(from + j - 1),
                             ok |-> ~(o.kind = "rpc" /\ o.at = from + j - 1)]]
       IN  /\ o.kind # "none" => o.at >= from
           /\ rz' = [rz EXCEPT !.pc = "returned", !.calls = made,
                               !.ret = RemoteResult(o), !.prev = o]
           /\ clients' = AcquireAll(clients, from, last)
    /\ UNCHANGED <<sealVars, notifyVars, traceVars, cacheVars, hostVars>>

\* The pipeline sends a failed event back to the retry queue.
RemoteRetry ==
    /\ rz.pc = "returned"
    /\ rz.ret # "nil"
    /\ LET oks == Cardinality({k \in DOMAIN rz.calls : rz.calls[k].ok})
       IN  rz' = [rz EXCEPT !.pc = "queued", !.first = FALSE,
                           !.progress = IF oks > @ THEN oks ELSE @]
    /\ UNCHANGED <<clients, sealVars, notifyVars, traceVars, cacheVars, hostVars>>

\* The pipeline is finished with the event (eventBase.Done does nothing).
RemoteDone ==
    /\ rz.pc = "returned"
    /\ rz' = NoRemote
    /\ UNCHANGED <<clients, sealVars, notifyVars, traceVars, cacheVars, hostVars>>

\* sealExtentOnStore up to the seal call: GetThriftStoreClient; when it
\* fails the function returns at once.
SealExtentOnStoreBegin(s, getErr) ==
    /\ rz.pc = "idle"
    /\ rz.sealing = "none"
    /\ clients[s] < MaxClients
    /\ IF getErr
       THEN UNCHANGED <<rz, clients>>
       ELSE /\ clients' = GetThriftStoreClient(clients, s)
            /\ rz' = [rz EXCEPT !.sealing = s]
    /\ UNCHANGED <<sealVars, notifyVars, traceVars, cacheVars, hostVars>>

\* sealExtentOnStore returns, with the seal done or failed: the deferred
\* ReleaseThriftStoreClient runs.
SealExtentOnStoreEnd ==
    /\ rz.sealing # "none"
    /\ clients' = ReleaseThriftStoreClient(clients, rz.sealing)
    /\ rz' = [rz EXCEPT !.sealing = "none"]
    /\ UNCHANGED <<sealVars, notifyVars, traceVars, cacheVars, hostVars>>

NextRemote ==
    \/ RemoteZoneExtentCreated
    \/ \E o \in RemoteOutcomes : RemoteZoneExtentCreatedHandle(o)
    \/ RemoteRetry
    \/ RemoteDone
    \/ \E s \in RemoteStores, getErr \in BOOLEAN : SealExtentOnStoreBegin(s, getErr)
    \/ SealExtentOnStoreEnd

\* ------------------------------------------------------------ invocation record
\* What one invocation of ExtentDownEvent.Handle did: whether it is the first
\* for its event instance, the stores it resolved, the token-bucket call it
\* made and whether that took a token, the stores it sent a seal to, those
\* that sealed, the invalidations per store, and the metadata writes; the
\* state the event had at entry, the ReadExtentStats calls, the tokens the
\* bucket held when it was called, and the retry
\* policy and deadline of the seal sent to each store.
NoSeal == [policy |-> "none", timeout |-> 0]

NoCall ==
    [first |-> TRUE, tried |-> FALSE, resolved |-> {}, tokenOp |-> "none",
     took |-> FALSE, rpc |-> {}, ok |-> {}, inval |-> [s \in Stores |-> 0],
     mdWrites |-> 0, entry |-> checkPreconditionState, reads |-> 0, avail |-> 0,
     moves |-> 0,
     seals |-> [s \in Stores |-> NoSeal]]

\* What one StoreExtentStatusOutOfSyncEvent.Handle did.
NoOos ==
    [extentID |-> "E1", storeID |-> "S1", ret |-> "none", invalidated |-> FALSE,
     inSet |-> FALSE, contacted |-> {}]

\* The record c, kept only where the invocations are traced.
Traced(c) == IF trace THEN c ELSE call

InitTrace(on) ==
    /\ trace = on
    /\ call = NoCall
    /\ oos = NoOos
    /\ rz = NoRemote
    /\ clients = [s \in RemoteStores |-> 0]

Init ==
    /\ mdStatus = [e \in Extents |-> "OPEN"]
    /\ inProgress = {}
    /\ failed = {}
    /\ tokens = MaxTokens
    /\ ev = [i \in Events |-> NoEvent]
    /\ lastDone = [e \in Extents |-> "none"]
    /\ track = FALSE
    /\ hist = [e \in Extents |-> NoHist]
    /\ InitNotify
    /\ InitTrace(FALSE)
    /\ InitCache
    /\ InitHost

\* ------------------------------------------------------------ admission
\* addExtentDownEvent: the extent enters inProgress before its seal is
\* attempted; an extent already in the set is not admitted again.
AddExtentDownEvent(i, e) ==
    /\ ev[i].pc = "none"
    /\ \A j \in Events : j < i => ev[j].pc # "none"
    /\ e \notin inProgress
    /\ inProgress' = inProgress \cup {e}
    /\ ev' = [ev EXCEPT ![i] = NewExtentDownEvent(e)]
    /\ call' = Traced(NoCall)
    /\ UNCHANGED <<mdStatus, failed, tokens, lastDone, hist, others, oos>>

\* ------------------------------------------------------------ ExtentDownEvent.Handle
\* Mutant: the handler never drops the event of an extent that is not OPEN.
ExtentIsOpen_NoDrop(status) == TRUE

\* stats.GetStatus() != shared.ExtentStatus_OPEN is the drop condition.
ExtentIsOpen(status) == status = "OPEN"

\* 1 when the step assigns a new value to event.state, else 0.
Moved(i) == IF ev'[i].state # ev[i].state THEN 1 ELSE 0

\* case checkPreconditionState
CheckPrecondition(i) ==
    /\ AtState(i, checkPreconditionState)
    /\ \E readErr \in BOOLEAN :
        LET r == Cur(i)
            status == mdStatus[r.extentID]
        IN  ev' = [ev EXCEPT ![i] =
                IF readErr THEN Return(r, "errRetryable")
                ELSE IF ~ExtentIsOpen(status) THEN Return(r, "nil")
                ELSE [r EXCEPT !.storeIDs = StoreUUIDs(r.extentID),
                               !.state = sealExtentState]]
    /\ call' = Traced([call EXCEPT !.reads = @ + 1, !.moves = @ + Moved(i)])
    /\ UNCHANGED <<mdStatus, inProgress, failed, tokens, lastDone, hist, others, oos>>

\* Mutant: the handler goes on without a healthy store.
NoHealthyStore_Never(stores) == FALSE

\* len(stores) < 1
NoHealthyStore(stores) == Cardinality(stores) < 1

\* Mutant: the handler goes on although the bucket gave no token.
RateLimited_Ignored(isRetry, avail) == FALSE

\* TryConsume(1) on the first attempt, Consume(1, 10s) on a retry: both are
\* denied when no token arrives; the blocking form waits for Refill first.
RateLimited(isRetry, avail) == avail < 1

\* if !isRetry: TryConsume(1); else: Consume(1, 10*time.Second)
TokenOp(isRetry) == IF ~isRetry THEN "TryConsume" ELSE "Consume"

\* Mutant: one token is taken for each store that resolved.
AfterConsume_PerStore(avail, stores) == avail - Cardinality(stores)

\* The bucket after TryConsume(1) or Consume(1, ...) granted the token,
\* whatever the stores that resolved.
AfterConsume(avail, stores) == avail - 1

\* case sealExtentState, up to the start of the per-store seal tasks
SealExtentBegin(i) ==
    /\ AtState(i, sealExtentState)
    /\ \E stores \in SUBSET Cur(i).storeIDs :
        LET r == Cur(i)
            c == [call EXCEPT !.tried = TRUE, !.resolved = stores]
        IN  IF NoHealthyStore(stores)
            THEN /\ ev' = [ev EXCEPT ![i] = Return(r, "errRetryable")]
                 /\ UNCHANGED tokens
                 /\ call' = Traced(c)
            ELSE IF RateLimited(r.isRetry, tokens)
            THEN /\ ev' = [ev EXCEPT ![i] = Return(r, "errRetryable")]
                 /\ UNCHANGED tokens
                 /\ call' = Traced([c EXCEPT !.tokenOp = TokenOp(r.isRetry),
                                             !.avail = tokens])
            ELSE /\ tokens' = AfterConsume(tokens, stores)
                 /\ ev' = [ev EXCEPT ![i] =
                        [r EXCEPT !.pc = "sealing", !.pending = stores,
                                  !.nSuccess = 0]]
                 /\ call' = Traced([c EXCEPT !.tokenOp = TokenOp(r.isRetry),
                                             !.avail = tokens, !.took = TRUE])
    /\ UNCHANGED <<mdStatus, inProgress, failed, lastDone, hist, others, oos>>

\* Mutant: the cache is invalidated whatever the outcome of the seal.
InvalidatesStoreExtentCache_Always(ok) == TRUE

\* if e == nil { ...; context.extentMonitor.invalidateStoreExtentCache(...) }
InvalidatesStoreExtentCache(ok) == ok

\* Mutant: every seal uses the first-attempt policy and deadline.
SealPolicy_AlwaysInitial(isRetry) ==
    [policy |-> "sealInitial", timeout |-> sealExtentInitialCallTimeout]

\* sealExtentOnStore: the retry policy and the deadline of the SealExtent RPC.
SealPolicy(isRetry) ==
    IF isRetry
    THEN [policy |-> "sealRetry", timeout |-> sealExtentRetryCallTimeout]
    ELSE [policy |-> "sealInitial", timeout |-> sealExtentInitialCallTimeout]

\* One goroutine of the fan-out: sealExtentOnStore, then on success the
\* counter increment and the cache invalidation.
SealOnStoreTask(i, s) ==
    /\ ev[i].pc = "sealing"
    /\ s \in ev[i].pending
    /\ \E ok \in BOOLEAN :
        /\ ev' = [ev EXCEPT ![i] =
            [ev[i] EXCEPT !.pending = @ \ {s},
                          !.nSuccess = IF ok THEN @ + 1 ELSE @,
                          !.sealedOK = @ \/ ok]]
        /\ call' = Traced([call EXCEPT
                !.rpc = @ \cup {s},
                !.ok = IF ok THEN @ \cup {s} ELSE @,
                !.seals[s] = SealPolicy(ev[i].isRetry),
                !.inval[s] = IF InvalidatesStoreExtentCache(ok) THEN @ + 1 ELSE @])
    /\ UNCHANGED <<mdStatus, inProgress, failed, tokens, lastDone, hist, others, oos>>

\* Mutant: the success count is compared with 0 instead of 1.
SealFailedOnAllStores_OffByOne(nSuccess) == nSuccess < 0

\* Mutant: one successful store is not enough.
SealFailedOnAllStores_NeedsTwo(nSuccess) == nSuccess < 2

\* atomic.LoadInt32(&nSuccess) < 1
SealFailedOnAllStores(nSuccess) == nSuccess < 1

\* Mutant: the handler does not wait for its seal tasks.
AllTasksDone_NoWait(pending) == TRUE

\* wg.Wait() returns once every task has called wg.Done().
AllTasksDone(pending) == pending = {}

\* wg.Wait() and the decision that follows it
SealJoin(i) ==
    /\ ev[i].pc = "sealing"
    /\ AllTasksDone(ev[i].pending)
    /\ ev' = [ev EXCEPT ![i] =
            IF SealFailedOnAllStores(ev[i].nSuccess)
            THEN Return([ev[i] EXCEPT !.nSuccess = 0], "errRetryable")
            ELSE [ev[i] EXCEPT !.pc = "handle", !.state = updateMetadataState,
                               !.nSuccess = 0]]
    /\ call' = Traced([call EXCEPT !.moves = @ + Moved(i)])
    /\ UNCHANGED <<mdStatus, inProgress, failed, tokens, lastDone, hist, others, oos>>

\* Results of the metadata SealExtent call: it succeeds only on an OPEN
\* extent, and answers IllegalStateError when the record already moved on.
SealExtentResults(status) ==
    IF status = "OPEN" THEN {"ok", "otherErr"} ELSE {"illegalState", "otherErr"}

\* Mutant: no answer of the metadata store is taken for success.
MetadataUpdateAccepted_Never(res) == FALSE

\* Mutant: IllegalStateError is treated like any other metadata error.
MetadataUpdateAccepted_OnlyNil(res) == res = "ok"

\* err == nil, or err is *m.IllegalStateError
MetadataUpdateAccepted(res) == res = "ok" \/ res = "illegalState"

\* Mutant: the failed set is left alone after the metadata update.
FailedAfterUpdate_Keeps(f, e) == f

\* context.extentSeals.failed.Remove(event.extentID)
FailedAfterUpdate(f, e) == f \ {e}

\* case updateMetadataState, and case doneState that follows it
UpdateMetadata(i) ==
    /\ AtState(i, updateMetadataState)
    /\ \E res \in SealExtentResults(mdStatus[ev[i].extentID]) :
        LET r == [Cur(i) EXCEPT !.md = res]
            e == r.extentID
        IN  /\ mdStatus' = IF res = "ok" THEN [mdStatus EXCEPT ![e] = "SEALED"]
                           ELSE mdStatus
            /\ IF MetadataUpdateAccepted(res)
               THEN /\ failed' = FailedAfterUpdate(failed, e)
                    /\ ev' = [ev EXCEPT ![i] =
                            Return([r EXCEPT !.state = doneState], "nil")]
               ELSE /\ failed' = failed
                    /\ ev' = [ev EXCEPT ![i] = Return(r, "errRetryable")]
    /\ hist' = HistFlip(ev[i].extentID, failed, failed')
    /\ call' = Traced([call EXCEPT !.mdWrites = @ + 1, !.moves = @ + Moved(i)])
    /\ UNCHANGED <<inProgress, tokens, lastDone, others, oos>>

\* case doneState: return nil
DoneState(i) ==
    /\ AtState(i, doneState)
    /\ ev' = [ev EXCEPT ![i] = Return(Cur(i), "nil")]
    /\ UNCHANGED <<mdStatus, inProgress, failed, tokens, lastDone, hist, others,
                   call, oos>>

\* The values event.state can hold: the four states and one value that no
\* case of the switch names.
StateValues == checkPreconditionState .. doneState + 1

KnownStates ==
    {checkPreconditionState, sealExtentState, updateMetadataState, doneState}

\* Mutant: the default case goes round the loop again.
AfterDefault_Loops(r) == [r EXCEPT !.pc = "handle"]

\* default: log the illegal state, return nil
AfterDefault(r) == Return(r, "nil")

IllegalState(i) ==
    /\ ev[i].pc \in {"queued", "handle"}
    /\ ev[i].state \notin KnownStates
    /\ ev' = [ev EXCEPT ![i] = AfterDefault(Cur(i))]
    /\ UNCHANGED <<mdStatus, inProgress, failed, tokens, lastDone, hist, others,
                   call, oos>>

\* ------------------------------------------------------------ pipeline
\* The retry executor re-submits the same event instance after errRetryable.
Retry(i) ==
    /\ ev[i].pc = "returned"
    /\ ev[i].err = "errRetryable"
    /\ ev' = [ev EXCEPT ![i].pc = "queued"]
    /\ call' = Traced([NoCall EXCEPT !.first = FALSE, !.entry = ev[i].state])
    /\ UNCHANGED <<mdStatus, inProgress, failed, tokens, lastDone, hist, others, oos>>

\* ------------------------------------------------------------ ExtentDownEvent.Done
\* Mutant: the failed set never counts as full.
FailedSetFull_Never(size) == FALSE

\* context.extentSeals.failed.Size() > maxFailedExtentSealSetSize
FailedSetFull(size) == size > maxFailedExtentSealSetSize

\* Mutant: Done records a failure whatever the error.
DoneRecordsFailure_Always(err) == TRUE

\* if err != nil
DoneRecordsFailure(err) == err # "nil"

\* The failed set after Done(err) for extent e: Size(), then Put unless the
\* set is full or err is nil.
FailedAfterDone(f, e, err) ==
    IF DoneRecordsFailure(err) /\ ~FailedSetFull(Cardinality(f))
    THEN f \cup {e}
    ELSE f

\* Done is called with the handler's result: on success, and on errRetryable
\* when the retry executor gives up.  First the failed set: Size(), then Put.
DoneFailed(i) ==
    /\ ev[i].pc = "returned"
    /\ failed' = FailedAfterDone(failed, ev[i].extentID, ev[i].err)
    /\ ev' = [ev EXCEPT ![i].pc = "doneRemove",
                        ![i].put = ev[i].extentID \in failed' \ failed]
    /\ lastDone' = [lastDone EXCEPT ![ev[i].extentID] = ev[i].err]
    /\ hist' = HistFlip(ev[i].extentID, failed, failed')
    /\ UNCHANGED <<mdStatus, inProgress, tokens, others, call, oos>>

\* Mutant: the inProgress slot is released on success only.
InProgressAfterDone_OnSuccessOnly(ip, e, err) ==
    IF err # "nil" THEN ip ELSE ip \ {e}

\* context.extentSeals.inProgress.Remove(event.extentID)
InProgressAfterDone(ip, e, err) == ip \ {e}

DoneRemove(i) ==
    /\ ev[i].pc = "doneRemove"
    /\ inProgress' = InProgressAfterDone(inProgress, ev[i].extentID, ev[i].err)
    /\ ev' = [ev EXCEPT ![i] = NoEvent]
    /\ hist' = HistRun(ev[i].extentID, ev[i].err, mdStatus[ev[i].extentID])
    /\ call' = Traced(NoCall)
    /\ UNCHANGED <<mdStatus, failed, tokens, lastDone, others, oos>>

\* ------------------------------------------------------------ Done calls one at a time
\* Extents enough to overfill the failed set.
DoneExtents == {"E1", "E2", "E3", "E4"}

\* The errors Done is called with.
DoneErrors == {"nil", "errRetryable"}

InitDone ==
    /\ mdStatus = [e \in Extents |-> "OPEN"]
    /\ inProgress = {}
    /\ failed = {}
    /\ tokens = MaxTokens
    /\ ev = [i \in Events |-> NoEvent]
    /\ lastDone = [e \in DoneExtents |-> "none"]
    /\ track = FALSE
    /\ hist = [e \in Extents |-> NoHist]
    /\ InitNotify
    /\ InitTrace(FALSE)
    /\ InitCache
    /\ InitHost

\* An ExtentDownEvent for e is admitted: e enters inProgress.
AdmitExtentDown(e) ==
    /\ e \notin inProgress
    /\ inProgress' = inProgress \cup {e}
    /\ UNCHANGED <<mdStatus, failed, tokens, ev, lastDone, hist, others, call, oos>>

\* ExtentDownEvent.Done(context, err) for an admitted event of extent e, as
\* one step.
DoneCall(e, err) ==
    /\ e \in inProgress
    /\ failed' = FailedAfterDone(failed, e, err)
    /\ inProgress' = InProgressAfterDone(inProgress, e, err)
    /\ lastDone' = [lastDone EXCEPT ![e] = err]
    /\ UNCHANGED <<mdStatus, tokens, ev, hist, others, call, oos>>

NextDone ==
    \/ \E e \in DoneExtents : AdmitExtentDown(e)
    \/ \E e \in DoneExtents, err \in DoneErrors : DoneCall(e, err)

SpecDone == InitDone /\ [][NextDone]_vars

\* ------------------------------------------------------------ StoreExtentStatusOutOfSyncEvent
\* StoreExtentStatusOutOfSyncEvent.Handle, for an event the extent monitor
\* raised because metadata marks the extent SEALED while the store still
\* reports it OPEN.  An unresolvable store returns errRetryable at once;
\* otherwise the seal is re-issued and, whatever its outcome, the extent
\* leaves inProgress.
OutOfSyncPaths == {"resolveErr", "sealErr", "sealed"}

\* return errRetryable when ResolveUUID fails, nil at the end of the handler
OutOfSyncResult(path) == IF path = "resolveErr" THEN "errRetryable" ELSE "nil"

\* Mutant: the seal is re-issued to every store.
OutOfSyncContacted_AllStores(path, s) ==
    IF path = "resolveErr" THEN {} ELSE Stores

\* The stores the handler calls: sealExtentOnStore(context, event.storeID, ...)
\* once the store has resolved.
OutOfSyncContacted(path, s) ==
    IF path = "resolveErr" THEN {} ELSE {s}

StoreExtentStatusOutOfSyncHandle(e, s) ==
    /\ mdStatus[e] = "SEALED"
    /\ \E path \in OutOfSyncPaths :
        /\ inProgress' = IF path = "resolveErr" THEN inProgress
                         ELSE inProgress \ {e}
        /\ oos' = IF trace
                  THEN [extentID |-> e,
                        storeID |-> s,
                        contacted |-> OutOfSyncContacted(path, s),
                        ret |-> OutOfSyncResult(path),
                        invalidated |-> path # "resolveErr",
                        inSet |-> e \in inProgress']
                  ELSE oos
    /\ UNCHANGED <<mdStatus, failed, tokens, ev, lastDone, hist, others, call>>

\* ------------------------------------------------------------ environment
\* A concurrent controller (or a late metadata write) seals the extent.
ConcurrentSeal(e) ==
    /\ mdStatus[e] = "OPEN"
    /\ mdStatus' = [mdStatus EXCEPT ![e] = "SEALED"]
    /\ UNCHANGED <<inProgress, failed, tokens, ev, lastDone, hist, others, call, oos>>

\* Another actor moves a sealed extent on (consumed, archived, deleted).  The
\* handlers tell OPEN from every other status only, so this step matters
\* where the final status itself is compared: in the cycles in sequence.
ConcurrentConsume(e) ==
    /\ mdStatus[e] = "SEALED"
    /\ mdStatus' = [mdStatus EXCEPT ![e] = "CONSUMED"]
    /\ UNCHANGED <<inProgress, failed, tokens, ev, lastDone, hist, others, call, oos>>

\* The token bucket refills.
Refill ==
    /\ tokens < MaxTokens
    /\ tokens' = tokens + 1
    /\ UNCHANGED <<mdStatus, inProgress, failed, ev, lastDone, hist, others, call, oos>>

Next ==
    \/ \E i \in Events, e \in Extents : AddExtentDownEvent(i, e)
    \/ \E i \in Events : CheckPrecondition(i)
    \/ \E i \in Events : SealExtentBegin(i)
    \/ \E i \in Events, s \in Stores : SealOnStoreTask(i, s)
    \/ \E i \in Events : SealJoin(i)
    \/ \E i \in Events : UpdateMetadata(i)
    \/ \E i \in Events : Retry(i)
    \/ \E i \in Events : DoneFailed(i)
    \/ \E i \in Events : DoneRemove(i)
    \/ \E e \in Extents, s \in Stores : StoreExtentStatusOutOfSyncHandle(e, s)
    \/ \E e \in Extents : ConcurrentSeal(e)
    \/ Refill

Spec == Init /\ [][Next]_vars

\* The notification handlers alone.
SpecNotify == Init /\ [][NextNotify]_vars

\* The remote-zone replication handler alone.
SpecRemote == Init /\ [][NextRemote]_vars

\* triggerCacheRefreshForCG alone, from every cache, consumer group and time.
InitCacheCall ==
    /\ mdStatus = [e \in Extents |-> "OPEN"]
    /\ inProgress = {}
    /\ failed = {}
    /\ tokens = MaxTokens
    /\ ev = [i \in Events |-> NoEvent]
    /\ lastDone = [e \in Extents |-> "none"]
    /\ track = FALSE
    /\ hist = [e \in Extents |-> NoHist]
    /\ qlen = 0
    /\ ece = NoCreated
    /\ resultCache \in [ConsGroups -> CacheEntries]
    /\ InitTrace(FALSE)
    /\ \E g \in ConsGroups, now \in Times :
            trig = [pc |-> "ready", cg |-> g, now |-> now, before |-> resultCache,
                    data |-> "hostsA"]
    /\ hostData = [g \in ConsGroups |-> "hostsA"]
    /\ InitHost

SpecCache == InitCacheCall /\ [][NextCache]_vars

\* triggerCacheRefreshForCG, its read and its write as two steps, beside the
\* cache's own writer.
SpecRefresh == Init /\ [][NextRefresh]_vars

\* ConsGroupUpdatedEvent.Handle and the handler of the notifications it
\* enqueues.
SpecUpdated == Init /\ [][NextUpdated]_vars

\* The host notification handlers alone.
SpecHost == Init /\ [][NextHost]_vars

\* The host failure handlers alone.
SpecFailed == Init /\ [][NextFailed]_vars

\* ------------------------------------------------------------ traced invocations
\* One ExtentDownEvent at a time, with the record of what each invocation of
\* Handle did, and the out-of-sync handler with the record of what it did.
InitCall ==
    /\ mdStatus = [e \in Extents |-> "OPEN"]
    /\ inProgress = {}
    /\ failed = {}
    /\ tokens = MaxTokens
    /\ ev = [i \in Events |-> NoEvent]
    /\ lastDone = [e \in Extents |-> "none"]
    /\ track = FALSE
    /\ hist = [e \in Extents |-> NoHist]
    /\ InitNotify
    /\ InitTrace(TRUE)
    /\ InitCache
    /\ InitHost

NextCall ==
    \/ \E e \in Extents : AddExtentDownEvent(1, e)
    \/ CheckPrecondition(1)
    \/ SealExtentBegin(1)
    \/ \E s \in Stores : SealOnStoreTask(1, s)
    \/ SealJoin(1)
    \/ UpdateMetadata(1)
    \/ Retry(1)
    \/ DoneFailed(1)
    \/ DoneRemove(1)
    \/ \E e \in Extents, s \in Stores : StoreExtentStatusOutOfSyncHandle(e, s)
    \/ \E e \in Extents : ConcurrentSeal(e)
    \/ Refill

SpecCall == InitCall /\ [][NextCall]_vars

\* ------------------------------------------------------------ the loop of Handle
\* An admitted event instance whose state field holds any value when Handle
\* is called; past checkPreconditionState the stores are those that case
\* recorded.
AddExtentDownEventAt(e, state) ==
    /\ ev[1].pc = "none"
    /\ e \notin inProgress
    /\ inProgress' = inProgress \cup {e}
    /\ ev' = [ev EXCEPT ![1] =
            [NewExtentDownEvent(e) EXCEPT
                !.state = state,
                !.storeIDs = IF state = checkPreconditionState THEN {}
                             ELSE StoreUUIDs(e)]]
    /\ call' = Traced([NoCall EXCEPT !.entry = state,
                                     !.first = ~IsRetryAtEntry(state)])
    /\ UNCHANGED <<mdStatus, failed, tokens, lastDone, hist, others, oos>>

\* One step of the goroutine that runs Handle, or of a seal task it started.
HandleStep ==
    \/ CheckPrecondition(1)
    \/ SealExtentBegin(1)
    \/ \E s \in Stores : SealOnStoreTask(1, s)
    \/ SealJoin(1)
    \/ UpdateMetadata(1)
    \/ DoneState(1)
    \/ IllegalState(1)

NextLoop ==
    \/ \E e \in Extents, state \in StateValues : AddExtentDownEventAt(e, state)
    \/ HandleStep
    \/ Retry(1)
    \/ DoneFailed(1)
    \/ DoneRemove(1)
    \/ \E e \in Extents : ConcurrentSeal(e)
    \/ Refill

\* Handle from every value of event.state; every external call returns, so
\* the goroutine keeps taking steps while it has one to take.
SpecLoop == InitCall /\ [][NextLoop]_vars /\ WF_vars(HandleStep)

\* ------------------------------------------------------------ the seal of an OPEN extent
\* Events for extents that are OPEN and stay so until their own seal: the
\* failed set holds what earlier failures can have left.
InitLive ==
    /\ mdStatus = [e \in Extents |-> "OPEN"]
    /\ inProgress = {}
    /\ failed \in SUBSET Extents
    /\ tokens \in 0 .. MaxTokens
    /\ ev = [i \in Events |-> NoEvent]
    /\ lastDone = [e \in Extents |-> IF e \in failed THEN "errRetryable" ELSE "none"]
    /\ track = FALSE
    /\ hist = [e \in Extents |-> NoHist]
    /\ InitNotify
    /\ InitTrace(FALSE)
    /\ InitCache
    /\ InitHost

AddOpenExtentDownEvent(e) ==
    /\ mdStatus[e] = "OPEN"
    /\ AddExtentDownEvent(1, e)

\* The retry executor never gives up: Done is called once Handle returned nil.
DoneAfterSuccess ==
    /\ ev[1].err = "nil"
    /\ DoneFailed(1)

\* One step of the goroutine that runs Handle, or of a seal task it started.
SealStep ==
    \/ CheckPrecondition(1)
    \/ SealExtentBegin(1)
    \/ \E s \in Stores : SealOnStoreTask(1, s)
    \/ SealJoin(1)
    \/ UpdateMetadata(1)

\* The metadata read of checkPreconditionState succeeds.
ReadSucceeds == CheckPrecondition(1) /\ ev'[1].pc = "handle"

\* At least one store resolves and the token is granted.
TokenGranted == SealExtentBegin(1) /\ ev'[1].pc = "sealing"

\* A store seals the extent.
StoreSeals == \E s \in Stores : SealOnStoreTask(1, s) /\ ev'[1].nSuccess > ev[1].nSuccess

\* The metadata write of updateMetadataState succeeds.
WriteSucceeds == UpdateMetadata(1) /\ ev'[1].state = doneState

NextLive ==
    \/ \E e \in Extents : AddOpenExtentDownEvent(e)
    \/ SealStep
    \/ Retry(1)
    \/ DoneAfterSuccess
    \/ DoneRemove(1)
    \/ Refill

\* Every step that can be taken is taken in the end; every external call
\* that is made again and again succeeds in the end.
Fairness ==
    /\ WF_vars(SealStep)
    /\ WF_vars(Retry(1))
    /\ WF_vars(DoneAfterSuccess)
    /\ WF_vars(DoneRemove(1))
    /\ WF_vars(Refill)
    /\ SF_vars(ReadSucceeds)
    /\ SF_vars(TokenGranted)
    /\ SF_vars(StoreSeals)
    /\ SF_vars(WriteSucceeds)

SpecLive == InitLive /\ [][NextLive]_vars /\ Fairness

\* ------------------------------------------------------------ cycles in sequence
\* One worker, one event at a time: complete Handle/Done cycles run one after
\* the other, at most two per extent, from any content of the failed set that
\* earlier failures can have left.
InitSeq ==
    /\ mdStatus = [e \in Extents |-> "OPEN"]
    /\ inProgress = {}
    /\ failed \in SUBSET Extents
    /\ tokens = MaxTokens
    /\ ev = [i \in Events |-> NoEvent]
    /\ lastDone = [e \in Extents |-> IF e \in failed THEN "errRetryable" ELSE "none"]
    /\ track = TRUE
    /\ hist = [e \in Extents |-> NoHist]
    /\ InitNotify
    /\ InitTrace(FALSE)
    /\ InitCache
    /\ InitHost

AddSequential(e) ==
    /\ hist[e].runs < 2
    /\ AddExtentDownEvent(1, e)

NextSeq ==
    \/ \E e \in Extents : AddSequential(e)
    \/ CheckPrecondition(1)
    \/ SealExtentBegin(1)
    \/ \E s \in Stores : SealOnStoreTask(1, s)
    \/ SealJoin(1)
    \/ UpdateMetadata(1)
    \/ Retry(1)
    \/ DoneFailed(1)
    \/ DoneRemove(1)
    \/ \E e \in Extents : ConcurrentSeal(e)
    \/ \E e \in Extents : ConcurrentConsume(e)
    \/ Refill

SpecSeq == InitSeq /\ [][NextSeq]_vars

\* ------------------------------------------------------------ properties
\* C1: when ExtentDownEvent.Done returns for extent E, E is not in the
\* inProgress set, whatever the error and however full the failed set is.
C1_DoneReleasesInProgress ==
    [][\A i \in Events :
        (ev[i].pc = "doneRemove" /\ ev'[i].pc = "none")
            => ev[i].extentID \notin inProgress']_vars

\* A Done call with a non-nil error has finished for an extent while the
\* failed set is over capacity, and the extent has left inProgress.
C1_Witness ==
    \E e \in Extents :
        /\ lastDone[e] = "errRetryable"
        /\ ActiveFor(e) = {}
        /\ e \notin inProgress
        /\ Cardinality(failed) > maxFailedExtentSealSetSize

C4_FailedSetBounded ==
    Cardinality(failed) <= maxFailedExtentSealSetSize

\* C5: an event issues the metadata SealExtent write only after one of its
\* own store seals succeeded, and is in the done state only after that write
\* succeeded or answered IllegalStateError.
C5_SealBeforeMetadata ==
    \A i \in Events :
        /\ ev[i].md # "none" => ev[i].sealedOK
        /\ ev[i].state >= updateMetadataState => ev[i].sealedOK
        /\ ev[i].state = doneState => ev[i].md \in {"ok", "illegalState"}

\* An event is done after a store seal that succeeded and a metadata write
\* that answered IllegalStateError.
C5_Witness ==
    \E i \in Events :
        /\ ev[i].state = doneState
        /\ ev[i].md = "illegalState"
        /\ ev[i].sealedOK

\* C6: when the metadata SealExtent call answers IllegalStateError, Handle
\* returns nil with the event in the done state and the extent out of the
\* failed set.
C6_IllegalStateIsSuccess ==
    [][\A i \in Events :
        (/\ AtState(i, updateMetadataState)
         /\ ev'[i] # ev[i]
         /\ ev'[i].md = "illegalState")
            => /\ ev'[i].pc = "returned"
               /\ ev'[i].err = "nil"
               /\ ev'[i].state = doneState
               /\ ev[i].extentID \notin failed']_vars

\* Handle has returned nil after IllegalStateError for an extent whose
\* earlier cycle had failed.
C6_Witness ==
    \E i \in Events :
        /\ ev[i].pc = "returned"
        /\ ev[i].md = "illegalState"
        /\ ev[i].err = "nil"
        /\ lastDone[ev[i].extentID] = "errRetryable"
        /\ ev[i].extentID \notin failed

\* C7: an extent is in the failed set only if the most recent Done call for
\* it carried an error; after a cycle that ended with success, the drop of
\* a not-OPEN extent included, it is not in the failed set.
C7_FailedOnlyAfterFailure ==
    \A e \in Extents : e \in failed => lastDone[e] = "errRetryable"

OffersTo(h, type) ==
    {k \in DOMAIN ece.offers : ece.offers[k].host = h /\ ece.offers[k].type = type}

\* C9: when every enqueue of an ExtentCreatedEvent succeeded, the
\* originating input host was offered exactly one notification, of type ALL;
\* every other input host of the listing of OPEN extents of the destination
\* (none when the listing failed) exactly one, of type CLIENT; the
\* originating host none of type CLIENT, no host a second one, and no host
\* outside the listing any.
C9_InputHostNotifications ==
    (ece.offers # <<>> /\ \A k \in DOMAIN ece.offers : ece.offers[k].ok) =>
        /\ Cardinality(OffersTo(ece.inHostID, "ALL")) = 1
        /\ OffersTo(ece.inHostID, "CLIENT") = {}
        /\ \A h \in InHosts \ {ece.inHostID} :
            /\ OffersTo(h, "ALL") = {}
            /\ Cardinality(OffersTo(h, "CLIENT")) =
                    (IF h \in ece.listed THEN 1 ELSE 0)

\* An event whose listing names the originating host and one other host, and
\* whose two notifications were both accepted.
C9_Witness ==
    /\ Len(ece.offers) = 2
    /\ \A k \in DOMAIN ece.offers : ece.offers[k].ok
    /\ ece.inHostID \in ece.listed
    /\ Cardinality(ece.listed) = 2

\* C10: when ReadExtentStats reports a status other than OPEN, Handle returns
\* nil at once: no store seal is started, no token is taken, no metadata
\* write is made, and inProgress, failed and the event's state are unchanged.
C10_DropLeavesEverything ==
    [][\A i \in Events :
        (/\ AtState(i, checkPreconditionState)
         /\ mdStatus[ev[i].extentID] # "OPEN"
         /\ ev'[i] # ev[i]
         /\ ~(ev'[i].pc = "returned" /\ ev'[i].err = "errRetryable"))
            => /\ ev'[i].pc = "returned"
               /\ ev'[i].err = "nil"
               /\ ev'[i].state = checkPreconditionState
               /\ ev'[i].pending = {}
               /\ ev'[i].md = "none"
               /\ ev'[i].sealedOK = FALSE
               /\ UNCHANGED <<mdStatus, inProgress, failed, tokens>>]_vars

\* Handle has returned nil from the precondition check of an extent that is
\* not OPEN.
C10_Witness ==
    \E i \in Events :
        /\ ev[i].pc = "returned"
        /\ ev[i].err = "nil"
        /\ ev[i].state = checkPreconditionState
        /\ mdStatus[ev[i].extentID] = "SEALED"
        /\ ev[i].extentID \in inProgress

\* C11: when the invocation resolved none of the extent's stores, Handle
\* returns errRetryable with the state still sealExtent, and the invocation
\* made no metadata write, sent no seal to a store and made no call on the
\* token bucket.
C11_NoStoreResolved ==
    (ev[1].pc = "returned" /\ call.tried /\ call.resolved = {}) =>
        /\ ev[1].err = "errRetryable"
        /\ ev[1].state = sealExtentState
        /\ call.mdWrites = 0
        /\ call.rpc = {}
        /\ call.tokenOp = "none"
        /\ ~call.took

\* A retry has returned after resolving no store, with a token in the bucket.
C11_Witness ==
    /\ ev[1].pc = "returned"
    /\ call.tried
    /\ call.resolved = {}
    /\ ~call.first
    /\ tokens > 0

\* C12: an invocation whose fan-out saw at least one store seal goes on to
\* updateMetadata and makes the metadata SealExtent write, whatever the other
\* stores did; one whose fan-out saw no store seal returns errRetryable with
\* the state still sealExtent and makes no metadata write.
C12_QuorumOfOne ==
    /\ (ev[1].pc = "handle" /\ call.took) =>
            (call.ok # {} /\ ev[1].state = updateMetadataState)
    /\ (ev[1].pc = "returned" /\ call.took /\ call.ok # {}) =>
            (call.mdWrites = 1 /\ ev[1].state >= updateMetadataState)
    /\ (ev[1].pc = "returned" /\ call.took /\ call.ok = {}) =>
            /\ ev[1].err = "errRetryable"
            /\ ev[1].state = sealExtentState
            /\ call.mdWrites = 0

\* An invocation sent the seal to two stores, one of which refused, and has
\* returned after its metadata write.
C12_Witness ==
    /\ ev[1].pc = "returned"
    /\ call.rpc = Stores
    /\ Cardinality(call.ok) = 1
    /\ call.mdWrites = 1
    /\ ev[1].state = doneState

\* C13: within one invocation, invalidateStoreExtentCache has been called
\* exactly once for every store whose seal succeeded and not at all for any
\* other store of the extent, whether its seal failed or it did not resolve.
C13_InvalidateSealedStoresOnly ==
    /\ call.ok \subseteq call.rpc
    /\ call.rpc \subseteq call.resolved
    /\ \A s \in Stores : call.inval[s] = (IF s \in call.ok THEN 1 ELSE 0)

\* An invocation has sealed the extent with one store unresolved and the other
\* sealed, and the sealed store alone was invalidated.
C13_Witness ==
    /\ ev[1].pc = "returned"
    /\ ev[1].state = doneState
    /\ call.resolved = {"S1"}
    /\ call.ok = {"S1"}
    /\ call.inval["S1"] = 1
    /\ call.inval["S2"] = 0

\* C14: an invocation takes its token with the non-blocking TryConsume
\* exactly when it is the first invocation of its event instance; every
\* invocation the retry executor makes uses the blocking Consume.
C14_TryConsumeOnFirstOnly ==
    call.tokenOp # "none" =>
        (call.tokenOp = "TryConsume" <=> call.first)

\* C15: whenever StoreExtentStatusOutOfSyncEvent.Handle has returned, on
\* whatever path, it has invalidated the store's extent cache and the extent
\* was out of the inProgress set at its return.
C15_OutOfSyncAlwaysCleansUp ==
    oos.ret # "none" => (oos.invalidated /\ ~oos.inSet)

\* C16: every invocation of RemoteZoneExtentCreatedEvent.Handle, a retry
\* included, calls RemoteReplicateExtent on the primary and then
\* ReplicateExtent on the secondaries in order from the first one, skipping
\* none that succeeded before; when ReplicateExtent on a secondary fails it
\* returns an error with the primary already started, and it returns nil only
\* after calling every store.
C16_RetryRestartsFromPrimary ==
    rz.pc = "returned" =>
        /\ \A k \in DOMAIN rz.calls :
            /\ rz.calls[k].store = RemoteStoreIDs[k]
            /\ rz.calls[k].op = ReplicateOp(k)
        /\ (rz.prev.kind = "rpc" /\ rz.prev.at > 1) =>
            /\ rz.ret \notin {"nil", "none"}
            /\ Len(rz.calls) = rz.prev.at
            /\ rz.calls[1].ok
        /\ rz.ret = "nil" => Len(rz.calls) = Len(RemoteStoreIDs)

\* A retry, made after ReplicateExtent failed on the second secondary, has
\* called the primary and both secondaries again and returned nil.
C16_Witness ==
    /\ rz.pc = "returned"
    /\ ~rz.first
    /\ rz.progress = 2
    /\ rz.ret = "nil"
    /\ Len(rz.calls) = 3

\* C17: whenever no handler is running, no store client is acquired and not
\* released.
C17_ClientsReleased ==
    rz.sealing = "none" => \A s \in RemoteStores : clients[s] = 0

C19_FailedAddContinues ==
    (ece.offers # <<>> /\ \E k \in DOMAIN ece.offers : ~ece.offers[k].ok) =>
        /\ ece.pc = "reconf"
        /\ \A h \in ece.listed \ {ece.inHostID} : OffersTo(h, "CLIENT") # {}

\* C20: InputHostNotificationEvent.Handle and
\* OutputHostNotificationEvent.Handle return nil on every path: the host
\* does not resolve, the admin client cannot be created, the notification RPC
\* fails after its retries, or the notification is sent.
C20_NotificationsNeverFail ==
    nh.path # "none" => nh.ret = "nil"

\* An output host notification whose RPC failed after its retries, and an
\* input host notification queued behind it.
C20_Witness ==
    /\ nh.n.kind = "output"
    /\ nh.path = "rpcErr"
    /\ nh.ret = "nil"
    /\ nq # <<>>
    /\ Head(nq).kind = "input"

\* The extents of the listing of the last host failure whose origin zone is
\* the local zone.
LocalListed == {hf.stats[k].extentID : k \in {j \in DOMAIN hf.stats :
                                                hf.stats[j].originZone = LocalZone}}

StateStepsForward ==
    (ev[1].pc # "none" /\ ev'[1].pc # "none") =>
        /\ ev'[1].state \in {ev[1].state, ev[1].state + 1}
        /\ ev'[1].state <= doneState
        /\ ev[1].pc = "returned" => ev'[1].state = ev[1].state

\* C22 (as stated): the state of an ExtentDownEvent moves forward one step at
\* a time across its invocations, and an invocation that returns
\* errRetryable returns with the state it was entered with.
C22_FailedInvocationKeepsState ==
    [][/\ StateStepsForward
       /\ (ev'[1].pc = "returned" /\ ev'[1].err = "errRetryable")
                => ev'[1].state = call'.entry]_vars

\* C22 (amended): the state moves forward one step at a time across the
\* invocations and is kept between a return and the retry; an invocation
\* that returns errRetryable returns with the state of the step that failed,
\* which is the state it was entered with or a later one, never done.
C22_StateMonotone ==
    [][/\ StateStepsForward
       /\ (ev'[1].pc = "returned" /\ ev'[1].err = "errRetryable")
                => /\ ev'[1].state >= call'.entry
                   /\ ev'[1].state < doneState
                   /\ (call'.mdWrites > 0 => ev'[1].state = updateMetadataState)
                   /\ (call'.tried /\ call'.mdWrites = 0)
                            => ev'[1].state = sealExtentState
                   /\ (~call'.tried /\ call'.mdWrites = 0)
                            => ev'[1].state = checkPreconditionState]_vars

\* A retry that was entered in sealExtent failed in updateMetadata: the
\* invocation returned errRetryable with a state later than at its entry.
C22_Witness ==
    /\ ev[1].pc = "returned"
    /\ ev[1].err = "errRetryable"
    /\ call.entry = sealExtentState
    /\ ev[1].state = updateMetadataState

\* C23: an invocation entered in updateMetadata (the retry after a failed
\* metadata write) reads no extent stats, resolves no store, calls no token
\* bucket and sends no store seal, and has made the metadata write when it
\* returns; an invocation entered in sealExtent reads no extent stats and
\* resolves the stores out of the list captured in checkPrecondition.
C23_RetryResumesAtFailedState ==
    /\ call.entry = updateMetadataState =>
        /\ call.reads = 0
        /\ ~call.tried /\ call.resolved = {}
        /\ call.tokenOp = "none"
        /\ call.rpc = {}
        /\ ev[1].pc = "returned" => call.mdWrites = 1
    /\ call.entry = sealExtentState =>
        /\ call.reads = 0
        /\ ev[1].storeIDs = StoreUUIDs(ev[1].extentID)
        /\ call.resolved \subseteq ev[1].storeIDs
        /\ ev[1].pc = "returned" => call.tried
    /\ call.entry = checkPreconditionState /\ ev[1].pc = "returned" => call.reads = 1

\* The retry after a failed metadata write has returned: it made the write
\* and nothing else.
C23_Witness ==
    /\ ev[1].pc = "returned"
    /\ call.entry = updateMetadataState
    /\ call.mdWrites = 1
    /\ call.reads = 0
    /\ ev[1].md = "otherErr"

\* C24: when the token bucket, called in sealExtent, holds no token, the
\* invocation takes none, returns errRetryable with the state still
\* sealExtent, and has sent no store seal, invalidated no cache and written
\* no metadata.
C24_RateLimitedIsRetryable ==
    (call.tokenOp # "none" /\ call.avail < 1) =>
        /\ ~call.took
        /\ ev[1].pc \in {"returned", "doneRemove"}
        /\ ev[1].err = "errRetryable"
        /\ ev[1].state = sealExtentState
        /\ call.rpc = {}
        /\ \A s \in Stores : call.inval[s] = 0
        /\ call.mdWrites = 0

\* A retry whose blocking Consume got no token has returned.
C24_Witness ==
    /\ ev[1].pc = "returned"
    /\ call.tokenOp = "Consume"
    /\ call.avail = 0
    /\ call.resolved # {}

C26_JoinBeforeLeaving ==
    [][/\ (ev[1].pc = "sealing" /\ ev'[1].pc # "sealing") => ev[1].pending = {}
       /\ \A s \in Stores :
            call'.inval[s] > call.inval[s] =>
                /\ ev[1].pc = "sealing" /\ ev'[1].pc = "sealing"
                /\ s \in ev[1].pending /\ s \notin ev'[1].pending
                /\ s \in call'.ok]_vars

\* The handler has just left the sealExtent step for updateMetadata after
\* both tasks ended, one with a successful seal and its invalidation.
C26_Witness ==
    /\ ev[1].pc = "handle"
    /\ ev[1].state = updateMetadataState
    /\ ev[1].pending = {}
    /\ call.rpc = Stores
    /\ call.ok = {"S2"}
    /\ call.inval["S2"] = 1

\* C27: Done(err) with an error inserts the extent into the failed set when
\* the set holds fewer than maxFailedExtentSealSetSize extents and leaves the
\* set unchanged when it holds that many or more; Done(nil) leaves it
\* unchanged.
C27_DoneUpdatesFailedSet ==
    [][(ev[1].pc = "returned" /\ ev'[1].pc = "doneRemove") =>
            IF ev[1].err # "nil" /\ Cardinality(failed) < maxFailedExtentSealSetSize
            THEN failed' = failed \cup {ev[1].extentID}
            ELSE failed' = failed]_vars

\* C28: when the handler leaves the updateMetadata step after the metadata
\* SealExtent succeeded or answered IllegalStateError, it returns nil in the
\* done state with the extent out of the failed set; after any other error
\* of the write it returns errRetryable and the failed set is as it was.
C28_UpdateClearsFailed ==
    [][(ev[1].pc \in {"queued", "handle"} /\ ev[1].state = updateMetadataState
            /\ ev'[1].pc = "returned") =>
            IF ev'[1].md \in {"ok", "illegalState"}
            THEN /\ ev'[1].extentID \notin failed'
                 /\ failed' = failed \ {ev'[1].extentID}
                 /\ ev'[1].err = "nil"
                 /\ ev'[1].state = doneState
            ELSE /\ ev'[1].err = "errRetryable"
                 /\ ev'[1].state = updateMetadataState
                 /\ failed' = failed]_vars

\* An extent whose earlier cycle ended with an error, and was in the failed
\* set, has gone through the metadata write and is out of the set.
C28_Witness ==
    /\ ev[1].pc = "returned"
    /\ ev[1].state = doneState
    /\ ev[1].md = "ok"
    /\ lastDone[ev[1].extentID] = "errRetryable"
    /\ ev[1].extentID \notin failed
    /\ failed # {}

\* C29: an invocation of RemoteZoneExtentCreatedEvent.Handle calls
\* RemoteReplicateExtent on storeIDs[0] first and ReplicateExtent on a
\* secondary only after every earlier call succeeded, the secondaries in
\* index order and each with storeIDs[0] as its source; the store at which
\* resolution or the client fails is not called, and no store after the
\* first failure is.
C29_PrimaryThenSecondariesInOrder ==
    rz.pc = "returned" =>
        /\ \A k \in DOMAIN rz.calls :
            /\ rz.calls[k].store = RemoteStoreIDs[k]
            /\ rz.calls[k].op =
                    (IF k = 1 THEN "RemoteReplicateExtent" ELSE "ReplicateExtent")
            /\ rz.calls[k].src = (IF k = 1 THEN "none" ELSE RemoteStoreIDs[1])
            /\ k < Len(rz.calls) => rz.calls[k].ok
        /\ rz.prev.kind \in {"resolve", "get"} =>
            /\ Len(rz.calls) = rz.prev.at - 1
            /\ \A k \in DOMAIN rz.calls : rz.calls[k].ok
        /\ rz.prev.kind = "rpc" =>
            /\ Len(rz.calls) = rz.prev.at
            /\ ~rz.calls[rz.prev.at].ok
        /\ rz.prev.kind = "none" =>
            /\ Len(rz.calls) = Len(RemoteStoreIDs)
            /\ \A k \in DOMAIN rz.calls : rz.calls[k].ok

\* ReplicateExtent failed on the first secondary: the primary and that
\* secondary were called, the second secondary was not.
C29_Witness ==
    /\ rz.pc = "returned"
    /\ rz.first
    /\ rz.prev = [at |-> 2, kind |-> "rpc"]
    /\ Len(rz.calls) = 2
    /\ rz.calls[2].src = "P"

\* C30: a failure of RemoteZoneExtentCreatedEvent.Handle to resolve a store,
\* or of its RemoteReplicateExtent or ReplicateExtent call, is returned as
\* errRetryable.
C30_RetryableFailuresAreErrRetryable ==
    (rz.pc = "returned" /\ rz.prev.kind \in {"resolve", "rpc"}) =>
        rz.ret = "errRetryable"

\* C31: triggerCacheRefreshForCG rewrites the entry of its consumer group
\* with expiry = now exactly when the entry is a hit, is not marked for
\* refresh, and expires strictly later than now +
\* resultCacheRefreshMaxWaitTime; otherwise it writes nothing.
C31_WritesIffStrictlyBeyondDeadline ==
    trig.pc = "done" =>
        LET b == trig.before[trig.cg]
            due == b.hit /\ ~b.refresh
                    /\ b.expiry > trig.now + resultCacheRefreshMaxWaitTime
        IN  resultCache =
                (IF due THEN [trig.before EXCEPT ![trig.cg].expiry = trig.now]
                 ELSE trig.before)

\* C32: the write of triggerCacheRefreshForCG leaves the dstType, nExtents and
\* hostIDs of the entry as the cache's own writer last wrote them, whatever
\* that writer did between the trigger's read and its write.
C32_TriggerKeepsHostData ==
    [][(trig.pc = "read" /\ trig'.pc # "read") => hostData' = hostData]_vars

\* The offers to output host h in a log of notifications.
OutOffersTo(log, h) == {k \in DOMAIN log : log[k].host = h}

\* C33: in every iteration of the loop of reconfigureAllConsumers: when the
\* consumer group is ENABLED and its OPEN extents were listed, every distinct
\* output host of the listing is offered exactly one notification and no
\* other host any, each of type CLIENT and carrying the reason given to the
\* call; when the group is not ENABLED nothing is offered; and the cache
\* refresh trigger is called only in an iteration that made the group's
\* fan-out, every other iteration leaving the queue and the result cache as
\* they were.
C33_ReconfigureFanOut ==
    [][ece.pc = "cgloop" /\ ece' # ece =>
        /\ ece'.cg = Head(ece.cgs).cg
        /\ ece'.status = Head(ece.cgs).status
        /\ ece'.status = "ENABLED" /\ ece'.triggered =>
                \A h \in OutHosts :
                    Cardinality(OutOffersTo(ece'.outOffers, h)) =
                        (IF h \in ece'.outListed THEN 1 ELSE 0)
        /\ \A k \in DOMAIN ece'.outOffers :
                /\ ece'.outOffers[k].type = "CLIENT"
                /\ ece'.outOffers[k].reason = ece.reason
        /\ ece'.status # "ENABLED" => ece'.outOffers = <<>> /\ ~ece'.triggered
        /\ ~ece'.triggered =>
                /\ ece'.outOffers = <<>>
                /\ qlen' = qlen
                /\ resultCache' = resultCache]_vars

\* The last consumer group of a listing was ENABLED and had two distinct
\* output hosts, and both were offered the notification.
C33_Witness ==
    /\ ece.status = "ENABLED"
    /\ ece.triggered
    /\ ece.reason = notifyExtentCreated
    /\ Cardinality(ece.outListed) = 2
    /\ Len(ece.outOffers) = 2
    /\ ece.cgs = <<>>
    /\ ece.pc = "idle"

\* The offers the ConsGroupUpdatedEvent made to host h with the given type.
UpdatedOffersTo(h, type) ==
    {k \in DOMAIN cgu.offers : cgu.offers[k].host = h /\ cgu.offers[k].type = type}

\* C34: a ConsGroupUpdatedEvent offers exactly one notification of type ALL,
\* to its outputHostID, and exactly one of type CLIENT to every other
\* distinct output host of the listing of OPEN consumer group extents (none
\* when the listing failed); the newly assigned host is offered no CLIENT
\* notification and no host outside the listing any; this holds whether or
\* not the pipeline accepted each offer, and Handle returns nil.
C34_OutputHostNotifications ==
    cgu.ret # "none" =>
        /\ cgu.ret = "nil"
        /\ Cardinality(UpdatedOffersTo(cgu.outputHostID, "ALL")) = 1
        /\ UpdatedOffersTo(cgu.outputHostID, "CLIENT") = {}
        /\ \A h \in OutHosts \ {cgu.outputHostID} :
            /\ UpdatedOffersTo(h, "ALL") = {}
            /\ Cardinality(UpdatedOffersTo(h, "CLIENT")) =
                    (IF h \in cgu.listed THEN 1 ELSE 0)
        /\ \A k \in DOMAIN cgu.offers : cgu.offers[k].reason = notifyCGExtUpdated

\* The pipeline refused the ALL notification of an event whose listing names
\* the newly assigned host and one other, and the CLIENT notification of the
\* other host was offered all the same.
C34_Witness ==
    /\ Len(cgu.offers) = 2
    /\ ~cgu.offers[1].ok
    /\ cgu.offers[1].type = "ALL"
    /\ cgu.offers[2].type = "CLIENT"
    /\ cgu.outputHostID \in cgu.listed
    /\ Cardinality(cgu.listed) = 2

\* C35: a run of StoreExtentStatusOutOfSyncEvent.Handle leaves the metadata
\* status of every extent, the failed set, the token bucket and the state
\* of every ExtentDownEvent as they were, and calls no store but the one
\* named in the event.
C35_OutOfSyncFrame ==
    [][oos' # oos =>
        /\ mdStatus' = mdStatus
        /\ failed' = failed
        /\ tokens' = tokens
        /\ \A i \in Events : ev'[i] = ev[i]
        /\ oos'.contacted \subseteq {oos'.storeID}]_vars

\* The handler re-issued the seal to store S2 for an extent that is in the
\* failed set, while the token bucket was empty.
C35_Witness ==
    /\ oos.ret = "nil"
    /\ oos.contacted = {"S2"}
    /\ oos.extentID \in failed
    /\ tokens = 0

DonePutsBeforeRemove ==
    [][\A i \in Events :
        LET e == ev[i].extentID
        IN  /\ (/\ ev[i].pc = "returned"
                /\ ev'[i].pc = "doneRemove"
                /\ ev[i].err # "nil"
                /\ Cardinality(failed) <= maxFailedExtentSealSetSize) =>
                    /\ e \in failed'
                    /\ inProgress' = inProgress
            /\ (ev[i].pc = "doneRemove" /\ ev'[i].pc # "doneRemove") =>
                    failed' = failed]_vars

\* C37: when the Done calls run one at a time, the failed set never holds
\* more than maxFailedExtentSealSetSize + 1 extents.
C37_FailedSetBounded ==
    Cardinality(failed) <= maxFailedExtentSealSetSize + 1

\* The failed set holds maxFailedExtentSealSetSize + 1 extents, and a Done
\* with an error was since called for another extent, which was not added.
C37_Witness ==
    /\ Cardinality(failed) = maxFailedExtentSealSetSize + 1
    /\ \E e \in DoneExtents \ failed :
            e \notin inProgress /\ lastDone[e] = "errRetryable"

\* C38: a step of Handle that sends a seal to a store is made by an
\* invocation that has taken its token, and takes none; the step that takes
\* the token takes exactly one, with at least one store resolved and before
\* any seal is sent, whatever the number of stores; no other step of the
\* handler lowers the bucket and none raises it, so the token stays spent
\* when every seal fails; an invocation that starts in updateMetadataState,
\* in doneState or with a value no case names asks for no token.
C38_OneTokenPerInvocation ==
    [][/\ (call'.rpc # call.rpc /\ call'.rpc # {}) =>
                (call.took /\ tokens' = tokens)
       /\ (call'.took /\ ~call.took) =>
                /\ tokens' = tokens - 1
                /\ call'.resolved # {}
                /\ call'.rpc = {}
       /\ tokens' < tokens => (call'.took /\ ~call.took)
       /\ tokens' > tokens => (ev' = ev /\ call' = call)
       /\ call'.entry \notin {checkPreconditionState, sealExtentState} =>
                (~call'.took /\ call'.tokenOp = "none")]_vars

\* An invocation took the last token, sent the seal to two stores, saw both
\* fail and returned errRetryable; the bucket is still empty.
C38_Witness ==
    /\ call.took
    /\ call.rpc = Stores
    /\ call.ok = {}
    /\ ev[1].pc = "returned"
    /\ ev[1].err = "errRetryable"
    /\ tokens = 0

\* Handle is running: called and not yet returned.
Running == ev[1].pc \in {"queued", "handle", "sealing"}

\* C39: every invocation of Handle returns; whatever value event.state holds
\* when it is called, the invocation assigns event.state at most three
\* times; and called with a value that no case names it returns nil without
\* assigning it.
C39_HandleTerminates ==
    /\ [](call.moves <= 3)
    /\ []((ev[1].pc = "returned" /\ call.entry \notin KnownStates) =>
            (ev[1].err = "nil" /\ call.moves = 0 /\ ev[1].state = call.entry))
    /\ (Running ~> ev[1].pc = "returned")

\* An invocation that began in checkPreconditionState returned nil after
\* three assignments of event.state.
C39_Witness ==
    /\ ev[1].pc = "returned"
    /\ call.entry = checkPreconditionState
    /\ call.moves = 3
    /\ ev[1].state = doneState
    /\ ev[1].err = "nil"

\* The ExtentDownEvent of extent e has just been admitted.
Admitted(e) ==
    /\ ev[1].pc = "queued"
    /\ ev[1].state = checkPreconditionState
    /\ ev[1].extentID = e

\* Done has run for the event of extent e after Handle returned nil with the
\* extent sealed: e is in neither set.
SealedAndDone(e) ==
    /\ ev[1].pc = "none"
    /\ lastDone[e] = "nil"
    /\ mdStatus[e] = "SEALED"
    /\ e \notin inProgress
    /\ e \notin failed

\* C40: the event of an OPEN extent that is re-submitted after every
\* errRetryable, with metadata reads and writes, store resolution, the token
\* and a store seal each succeeding in the end, returns nil only from
\* doneState, does return nil in the end, and once Done has run the extent
\* is neither in inProgress nor in the failed set.
C40_EventuallySealed ==
    /\ []((ev[1].pc = "returned" /\ ev[1].err = "nil") => ev[1].state = doneState)
    /\ \A e \in Extents : Admitted(e) ~> (ev[1].pc = "returned" /\ ev[1].err = "nil")
    /\ \A e \in Extents : Admitted(e) ~> SealedAndDone(e)

\* The event of E1 was sealed and Done has run, while E2, which an earlier
\* failure left in the failed set, is still OPEN.
C40_Witness ==
    /\ SealedAndDone("E1")
    /\ "E1" \notin failed
    /\ mdStatus["E2"] = "OPEN"
    /\ "E2" \in failed
====
